---- MODULE Spec2Model ----
(***************************************************************************)
(* Model of ocp_resource_report.py: three collectors that run the `oc`     *)
(* CLI and parse its go-template output, the aggregation in main(), the    *)
(* two pie charts, the Excel report and the removal of the chart files.    *)
(*                                                                         *)
(* A Python str is a sequence of lexemes (the sentinels "Name:", "---",    *)
(* ",Limits:", "=", " ", ... and atomic words); a text is a sequence of    *)
(* lines.  str methods are modelled lexeme by lexeme.  A dict is a         *)
(* function from keys (strs) to values; a DataFrame is the sequence of its *)
(* rows, a missing cell being NaN.                                         *)
(***************************************************************************)
EXTENDS Integers, Sequences, FiniteSets, TLC

VARIABLES
    pc,                   \* position in main(): the step to run next
    cluster,              \* the cluster's objects the CLI reports on
    fate,                 \* how each of the three CLI calls behaves
    namespace_quotas_df,  \* main's locals, in order of assignment
    pod_limits_df,
    all_namespaces_df,
    quota_ratio_data,
    limits_ratio_data,
    chart_files,
    no_limits_df,
    no_quota_df,
    files,                \* the chart files on disk
    report,               \* the Excel file
    remove_failed,        \* chart files whose os.remove raised OSError
    raised                \* the exception that left main(), "" when none

vars == <<pc, cluster, fate, namespace_quotas_df, pod_limits_df,
          all_namespaces_df, quota_ratio_data, limits_ratio_data, chart_files,
          no_limits_df, no_quota_df, files, report, remove_failed, raised>>

\* ------------------------------------------------------------------ bounds
MaxQuotas == 2
MaxPods == 2
MaxContainers == 2

SeqsUpTo(S, n) == UNION {[1..k -> S] : k \in 0..n}

\* ----------------------------------------------------------- str methods
RECURSIVE lstrip(_)
lstrip(s) == IF s # <<>> /\ Head(s) = " " THEN lstrip(Tail(s)) ELSE s

RECURSIVE rstrip(_)
rstrip(s) ==
    IF s # <<>> /\ s[Len(s)] = " " THEN rstrip(SubSeq(s, 1, Len(s) - 1)) ELSE s

strip(s) == rstrip(lstrip(s))

startswith(s, prefix) == s # <<>> /\ Head(s) = prefix

contains(s, sub) == \E i \in 1..Len(s) : s[i] = sub

\* s.replace(old, new): every occurrence; new is a str (a lexeme sequence)
RECURSIVE replace(_, _, _)
replace(s, old, new) ==
    IF s = <<>> THEN <<>>
    ELSE (IF Head(s) = old THEN new ELSE <<Head(s)>>) \o replace(Tail(s), old, new)

FirstIndex(s, sep) == CHOOSE i \in 1..Len(s) : s[i] = sep /\ \A j \in 1..(i - 1) : s[j] # sep

\* s.split(sep): the list of pieces
RECURSIVE split(_, _)
split(s, sep) ==
    IF ~contains(s, sep) THEN <<s>>
    ELSE LET i == FirstIndex(s, sep)
         IN <<SubSeq(s, 1, i - 1)>> \o split(SubSeq(s, i + 1, Len(s)), sep)

\* s.split(sep, 1) of an s that holds sep
split1(s, sep) ==
    LET i == FirstIndex(s, sep)
    IN <<SubSeq(s, 1, i - 1), SubSeq(s, i + 1, Len(s))>>

\* ------------------------------------------------------------------ dicts
EmptyDict == [k \in {} |-> <<>>]
DictSet(d, k, v) == [x \in (DOMAIN d) \cup {k} |-> IF x = k THEN v ELSE d[x]]
Truthy(d) == DOMAIN d # {}

KName == <<"Name">>
KNamespace == <<"Namespace">>
NaN == <<"<NaN>">>

\* a DataFrame cell: the row's value, NaN when the row lacks the column
Cell(row, col) == IF col \in DOMAIN row THEN row[col] ELSE NaN
Columns(df) == UNION {DOMAIN df[i] : i \in 1..Len(df)}
Unique(df, col) == {Cell(df[i], col) : i \in 1..Len(df)}

\* --------------------------------------------------- the CLI and its output
Failures == {"exit_nonzero", "not_found"}

\* what the go-template of get_namespace_quotas prints for the items
RECURSIVE HardLines(_)
HardLines(hard) ==
    IF hard = <<>> THEN <<>>
    ELSE << <<" ", " ", Head(hard)[1], "=", Head(hard)[2]>> >> \o HardLines(Tail(hard))

RECURSIVE QuotaBlocks(_)
QuotaBlocks(items) ==
    IF items = <<>> THEN <<>>
    ELSE LET q == Head(items)
         IN << <<>>, <<"Name:", q.name>>, <<"Namespace:", q.namespace>>,
               <<"ResourceQuota:">> >> \o HardLines(q.hard) \o << <<"---">> >>
            \o QuotaBlocks(Tail(items))

QuotaTemplate(items) == << <<>> >> \o QuotaBlocks(items) \o << <<>> >>

\* what the go-template of get_pod_resource_limits prints for the items
RECURSIVE JoinWords(_)
JoinWords(m) ==
    IF Len(m) <= 1 THEN m ELSE <<Head(m), " ">> \o JoinWords(Tail(m))

GoMap(m) == IF m = <<>> THEN <<"None">> ELSE <<"map[">> \o JoinWords(m) \o <<"]">>

RECURSIVE ContainerLines(_)
ContainerLines(cs) ==
    IF cs = <<>> THEN <<>>
    ELSE LET c == Head(cs)
         IN << <<" ", " ", "Name:", c.name, ",Limits:">> \o GoMap(c.limits)
               \o <<",Requests:">> \o GoMap(c.requests) >> \o ContainerLines(Tail(cs))

RECURSIVE PodBlocks(_)
PodBlocks(items) ==
    IF items = <<>> THEN <<>>
    ELSE LET p == Head(items)
         IN << <<>>, <<"Pod:", p.name>>, <<"Namespace:", p.namespace>>,
               <<"Containers:">> >> \o ContainerLines(p.containers) \o << <<"---">> >>
            \o PodBlocks(Tail(items))

PodTemplate(items) == << <<>> >> \o PodBlocks(items) \o << <<>> >>

\* what the go-template of get_all_namespaces prints: one name a line
NamespaceTemplate(names) == [i \in 1..Len(names) |-> <<names[i]>>]

\* the output the CLI really gives may differ from the template's
RECURSIVE DropLines(_, _)
DropLines(text, prefix) ==
    IF text = <<>> THEN <<>>
    ELSE (IF startswith(strip(Head(text)), prefix) THEN <<>> ELSE <<Head(text)>>)
         \o DropLines(Tail(text), prefix)

RECURSIVE DropFirstLine(_, _)
DropFirstLine(text, prefix) ==
    IF text = <<>> THEN <<>>
    ELSE IF startswith(strip(Head(text)), prefix) THEN Tail(text)
    ELSE <<Head(text)>> \o DropFirstLine(Tail(text), prefix)

RECURSIVE ReplaceInLines(_, _, _)
ReplaceInLines(text, old, new) ==
    IF text = <<>> THEN <<>>
    ELSE <<replace(Head(text), old, new)>> \o ReplaceInLines(Tail(text), old, new)

RECURSIVE DropFinalSeparator(_)
DropFinalSeparator(text) ==
    IF text = <<>> THEN <<>>
    ELSE IF text[Len(text)] = <<"---">> THEN SubSeq(text, 1, Len(text) - 1)
    ELSE DropFinalSeparator(SubSeq(text, 1, Len(text) - 1))

\* every line padded with blanks, followed by a whitespace-only line, and repeated
RECURSIVE PadLines(_)
PadLines(text) ==
    IF text = <<>> THEN <<>>
    ELSE << <<" ">> \o Head(text) \o <<" ">>, <<" ", " ">>, Head(text) >>
         \o PadLines(Tail(text))

Garble(kind, text) ==
    CASE kind = "ok" -> text
      [] kind = "no_final_separator" -> DropFinalSeparator(text)
      [] kind = "no_namespace" -> DropFirstLine(text, "Namespace:")
      [] kind = "no_name" -> DropLines(text, "Name:")
      [] kind = "no_pod" -> DropLines(text, "Pod:")
      [] kind = "no_equals" -> ReplaceInLines(text, "=", <<" ">>)
      [] kind = "no_limits" -> ReplaceInLines(text, ",Limits:", <<",">>)
      [] kind = "no_requests" -> ReplaceInLines(text, ",Requests:", <<",">>)
      [] kind = "dup_limits" ->
            ReplaceInLines(text, ",Limits:", <<",Limits:", "None", ",Limits:">>)
      [] kind = "dup_requests" ->
            ReplaceInLines(text, ",Requests:", <<",Requests:", "None", ",Requests:">>)
      [] kind = "padded" -> PadLines(text)

\* run_oc_command: None on a non-zero exit or a missing tool, else stdout
run_oc_command(behaviour, stdout) ==
    IF behaviour \in Failures
    THEN [none |-> TRUE, stdout |-> <<>>]
    ELSE [none |-> FALSE, stdout |-> Garble(behaviour, stdout)]

\* `not output`: None or the empty str
Falsy(output) == output.none \/ output.stdout = <<>>

\* ------------------------------------------------------ get_namespace_quotas
quota_line(st, raw) ==
    LET line == strip(raw)
        cur == st.current_quota
        flushed == IF Truthy(cur) THEN Append(st.data, cur) ELSE st.data
    IN  IF startswith(line, "Name:")
        THEN [data |-> flushed,
              current_quota |->
                  DictSet(EmptyDict, KName, strip(replace(line, "Name:", <<>>)))]
        ELSE IF startswith(line, "Namespace:")
        THEN [st EXCEPT !.current_quota =
                  DictSet(cur, KNamespace, strip(replace(line, "Namespace:", <<>>)))]
        ELSE IF startswith(line, "ResourceQuota:")
        THEN st
        ELSE IF startswith(line, "---")
        THEN [data |-> flushed, current_quota |-> EmptyDict]
        ELSE IF line # <<>> /\ contains(line, "=")
        THEN LET kv == split1(line, "=")
             IN [st EXCEPT !.current_quota = DictSet(cur, strip(kv[1]), strip(kv[2]))]
        ELSE st

RECURSIVE quota_scan(_, _)
quota_scan(lines, st) ==
    IF lines = <<>> THEN st ELSE quota_scan(Tail(lines), quota_line(st, Head(lines)))

\* mutant: the record still open at the end of the stream is not flushed
quota_rows_no_final_flush(stdout) ==
    quota_scan(stdout, [data |-> <<>>, current_quota |-> EmptyDict]).data

\* the parse of a truthy output, lines 52-82 (the reordering of the columns
\* in lines 79-82 changes no row and no cell)
quota_rows(stdout) ==
    LET st == quota_scan(stdout, [data |-> <<>>, current_quota |-> EmptyDict])
    IN  IF Truthy(st.current_quota) /\ KName \in DOMAIN st.current_quota
        THEN Append(st.data, st.current_quota)
        ELSE st.data

NextOfQuotas == "get_pod_resource_limits"

\* mutant: the `if not output` guard is missing, so None.splitlines() raises
get_namespace_quotas_unguarded ==
    /\ pc = "get_namespace_quotas"
    /\ LET output == run_oc_command(fate.quota, QuotaTemplate(cluster.quotas))
       IN  IF output.none
           THEN /\ pc' = "crashed"
                /\ raised' = "get_namespace_quotas: AttributeError"
                /\ UNCHANGED namespace_quotas_df
           ELSE /\ namespace_quotas_df' = quota_rows(output.stdout)
                /\ pc' = NextOfQuotas
                /\ raised' = raised
    /\ UNCHANGED <<cluster, fate, pod_limits_df, all_namespaces_df, quota_ratio_data,
                   limits_ratio_data, chart_files, no_limits_df, no_quota_df, files,
                   report, remove_failed>>

get_namespace_quotas ==
    /\ pc = "get_namespace_quotas"
    /\ LET output == run_oc_command(fate.quota, QuotaTemplate(cluster.quotas))
       IN  namespace_quotas_df' = IF Falsy(output) THEN <<>> ELSE quota_rows(output.stdout)
    /\ pc' = NextOfQuotas
    /\ UNCHANGED <<cluster, fate, pod_limits_df, all_namespaces_df, quota_ratio_data,
                   limits_ratio_data, chart_files, no_limits_df, no_quota_df, files,
                   report, remove_failed, raised>>

\* --------------------------------------------------- get_pod_resource_limits
EmptyPod == [keys |-> {}, Pod |-> <<>>, Namespace |-> <<>>, Containers |-> <<>>]

RECURSIVE pod_rows(_, _)
pod_rows(pod, containers) ==
    IF containers = <<>> THEN <<>>
    ELSE << [PodName |-> pod.Pod, Namespace |-> pod.Namespace,
             ContainerName |-> Head(containers).Name,
             Limits |-> Head(containers).Limits,
             Requests |-> Head(containers).Requests] >>
         \o pod_rows(pod, Tail(containers))

\* the loop over current_pod.get("Containers", []) that builds the rows
pod_flush(st) ==
    LET cur == st.current_pod
        containers == IF "Containers" \in cur.keys THEN cur.Containers ELSE <<>>
    IN  IF containers = <<>> THEN st
        ELSE IF "Pod" \notin cur.keys THEN [st EXCEPT !.err = "get_pod_resource_limits: KeyError 'Pod'"]
        ELSE IF "Namespace" \notin cur.keys
        THEN [st EXCEPT !.err = "get_pod_resource_limits: KeyError 'Namespace'"]
        ELSE [st EXCEPT !.data = st.data \o pod_rows(cur, containers)]

cleanup_map(s) ==
    replace(replace(replace(strip(s), "map[", <<>>), "]", <<>>), " ", <<", ">>)

container_line(st, line) ==
    LET cur == st.current_pod
        parts == split(line, ",Limits:")
        container_name_part == strip(replace(parts[1], "Name:", <<>>))
        limits_requests_part == parts[2]
        unpacked == split(limits_requests_part, ",Requests:")
        limits_str == cleanup_map(unpacked[1])
        requests_str == cleanup_map(unpacked[2])
    IN  IF Len(unpacked) # 2 THEN [st EXCEPT !.err = "get_pod_resource_limits: ValueError unpack"]
        ELSE IF "Containers" \notin cur.keys
        THEN [st EXCEPT !.err = "get_pod_resource_limits: KeyError 'Containers'"]
        ELSE [st EXCEPT !.current_pod.Containers =
                 Append(cur.Containers,
                        [Name |-> container_name_part,
                         Limits |-> IF limits_str # <<"None">> THEN limits_str ELSE <<>>,
                         Requests |->
                             IF requests_str # <<"None">> THEN requests_str ELSE <<>>])]

pod_line(st, raw) ==
    LET line == strip(raw)
        cur == st.current_pod
        flushed == IF cur.keys # {} THEN pod_flush(st) ELSE st
    IN  IF st.err # "" THEN st
        ELSE IF startswith(line, "Pod:")
        THEN IF flushed.err # "" THEN flushed
             ELSE [flushed EXCEPT !.current_pod =
                      [keys |-> {"Pod", "Containers"},
                       Pod |-> strip(replace(line, "Pod:", <<>>)),
                       Namespace |-> <<>>, Containers |-> <<>>]]
        ELSE IF startswith(line, "Namespace:")
        THEN [st EXCEPT !.current_pod.keys = cur.keys \cup {"Namespace"},
                        !.current_pod.Namespace =
                            strip(replace(line, "Namespace:", <<>>))]
        ELSE IF startswith(line, "Containers:")
        THEN st
        ELSE IF startswith(line, "---")
        THEN IF flushed.err # "" THEN flushed
             ELSE [flushed EXCEPT !.current_pod = EmptyPod]
        ELSE IF /\ startswith(line, "Name:")
                /\ contains(line, ",Limits:")
                /\ contains(line, ",Requests:")
        THEN container_line(st, line)
        ELSE st

RECURSIVE pod_scan(_, _)
pod_scan(lines, st) ==
    IF lines = <<>> THEN st ELSE pod_scan(Tail(lines), pod_line(st, Head(lines)))

\* mutant: the pod still open at the end of the stream is not flushed
pod_parse_no_final_flush(stdout) ==
    pod_scan(stdout, [data |-> <<>>, current_pod |-> EmptyPod, err |-> ""])

\* the parse of a truthy output, lines 106-170: the rows, or the exception
pod_parse(stdout) ==
    LET st == pod_scan(stdout, [data |-> <<>>, current_pod |-> EmptyPod, err |-> ""])
    IN  IF st.err = "" /\ st.current_pod.keys # {} /\ "Pod" \in st.current_pod.keys
        THEN pod_flush(st)
        ELSE st

NextOfPods == "get_all_namespaces"

get_pod_resource_limits ==
    /\ pc = "get_pod_resource_limits"
    /\ LET output == run_oc_command(fate.pods, PodTemplate(cluster.pods))
           parsed == pod_parse(output.stdout)
       IN  IF Falsy(output)
           THEN pod_limits_df' = <<>> /\ pc' = NextOfPods /\ raised' = raised
           ELSE IF parsed.err # ""
           THEN pod_limits_df' = pod_limits_df /\ pc' = "crashed" /\ raised' = parsed.err
           ELSE pod_limits_df' = parsed.data /\ pc' = NextOfPods /\ raised' = raised
    /\ UNCHANGED <<cluster, fate, namespace_quotas_df, all_namespaces_df,
                   quota_ratio_data, limits_ratio_data, chart_files, no_limits_df,
                   no_quota_df, files, report, remove_failed>>

\* -------------------------------------------------------- get_all_namespaces
RECURSIVE namespace_rows(_)
namespace_rows(lines) ==
    IF lines = <<>> THEN <<>>
    ELSE (IF strip(Head(lines)) # <<>> THEN <<strip(Head(lines))>> ELSE <<>>)
         \o namespace_rows(Tail(lines))

NextOfNamespaces == "aggregate"

get_all_namespaces ==
    /\ pc = "get_all_namespaces"
    /\ LET output == run_oc_command(fate.ns, NamespaceTemplate(cluster.namespaces))
       IN  all_namespaces_df' =
               IF Falsy(output) THEN <<>> ELSE namespace_rows(output.stdout)
    /\ pc' = NextOfNamespaces
    /\ UNCHANGED <<cluster, fate, namespace_quotas_df, pod_limits_df, quota_ratio_data,
                   limits_ratio_data, chart_files, no_limits_df, no_quota_df, files,
                   report, remove_failed, raised>>

\* ------------------------------------------------------------------- main
Range(seq) == {seq[i] : i \in 1..Len(seq)}

\* rows of the pod frame whose Limits cell is, or is not, the empty str
RECURSIVE WithoutLimits(_)
WithoutLimits(df) ==
    IF df = <<>> THEN <<>>
    ELSE (IF Head(df).Limits = <<>> THEN <<Head(df)>> ELSE <<>>) \o WithoutLimits(Tail(df))

RECURSIVE WithLimits(_)
WithLimits(df) ==
    IF df = <<>> THEN <<>>
    ELSE (IF Head(df).Limits # <<>> THEN <<Head(df)>> ELSE <<>>) \o WithLimits(Tail(df))

\* mutant: the quota records are counted, not their distinct namespaces
namespaces_with_quotas_count_rows == Len(namespace_quotas_df)

\* df[['Pod Name', 'Namespace', 'Container Name', 'Requests']]
RECURSIVE Project(_)
Project(df) ==
    IF df = <<>> THEN <<>>
    ELSE << [PodName |-> Head(df).PodName, Namespace |-> Head(df).Namespace,
             ContainerName |-> Head(df).ContainerName,
             Requests |-> Head(df).Requests] >> \o Project(Tail(df))

namespaces_with_quotas_count ==
    IF namespace_quotas_df # <<>>
    THEN Cardinality(Unique(namespace_quotas_df, KNamespace))
    ELSE 0

all_namespace_names_set == Range(all_namespaces_df)

namespaces_without_quotas_count ==
    Cardinality(all_namespace_names_set) - namespaces_with_quotas_count

\* lines 243-264; df['Namespace'] of a frame without that column is a KeyError
aggregate ==
    /\ pc = "aggregate"
    /\ IF namespace_quotas_df # <<>> /\ KNamespace \notin Columns(namespace_quotas_df)
       THEN /\ pc' = "crashed"
            /\ raised' = "main: KeyError 'Namespace'"
            /\ UNCHANGED <<quota_ratio_data, limits_ratio_data>>
       ELSE /\ quota_ratio_data' = [with |-> namespaces_with_quotas_count,
                                    without |-> namespaces_without_quotas_count]
            /\ limits_ratio_data' = [with |-> Len(WithLimits(pod_limits_df)),
                                     without |-> Len(WithoutLimits(pod_limits_df))]
            /\ pc' = "quota_chart"
            /\ raised' = raised
    /\ UNCHANGED <<cluster, fate, namespace_quotas_df, pod_limits_df, all_namespaces_df,
                   chart_files, no_limits_df, no_quota_df, files, report, remove_failed>>

quota_chart_path == "quota_ratio_chart.png"
limits_chart_path == "limits_ratio_chart.png"

Sum(data_counts) == data_counts.with + data_counts.without

\* mutant: no chart as soon as one slice is zero
create_pie_chart_any_zero(data_counts, output_path, savefig_ok) ==
    IF data_counts.with = 0 \/ data_counts.without = 0
    THEN [ret |-> "None", exc |-> "", saved |-> FALSE]
    ELSE IF data_counts.with < 0 \/ data_counts.without < 0
    THEN [ret |-> "None", exc |-> "create_pie_chart: ValueError wedge sizes",
          saved |-> FALSE]
    ELSE IF ~savefig_ok
    THEN [ret |-> "None", exc |-> "create_pie_chart: OSError savefig", saved |-> FALSE]
    ELSE [ret |-> output_path, exc |-> "", saved |-> TRUE]

\* create_pie_chart: None for a zero sum; Axes.pie raises on a negative
\* wedge; savefig writes the file unless the write fails
create_pie_chart(data_counts, output_path, savefig_ok) ==
    IF Sum(data_counts) = 0
    THEN [ret |-> "None", exc |-> "", saved |-> FALSE]
    ELSE IF data_counts.with < 0 \/ data_counts.without < 0
    THEN [ret |-> "None", exc |-> "create_pie_chart: ValueError wedge sizes", saved |-> FALSE]
    ELSE IF ~savefig_ok
    THEN [ret |-> "None", exc |-> "create_pie_chart: OSError savefig", saved |-> FALSE]
    ELSE [ret |-> output_path, exc |-> "", saved |-> TRUE]

\* lines 275-280 and 284-289: the guarded call and the append
chart_step(data_counts, output_path, next) ==
    IF Sum(data_counts) > 0
    THEN \E savefig_ok \in BOOLEAN :
            LET created == create_pie_chart(data_counts, output_path, savefig_ok)
            IN  IF created.exc # ""
                THEN /\ pc' = "crashed"
                     /\ raised' = created.exc
                     /\ UNCHANGED <<chart_files, files>>
                ELSE /\ files' = IF created.saved THEN files \cup {output_path} ELSE files
                     /\ chart_files' = IF created.ret # "None"
                                       THEN Append(chart_files, created.ret)
                                       ELSE chart_files
                     /\ pc' = next
                     /\ raised' = raised
    ELSE /\ pc' = next
         /\ UNCHANGED <<chart_files, files, raised>>

quota_chart ==
    /\ pc = "quota_chart"
    /\ chart_step(quota_ratio_data, quota_chart_path, "limits_chart")
    /\ UNCHANGED <<cluster, fate, namespace_quotas_df, pod_limits_df, all_namespaces_df,
                   quota_ratio_data, limits_ratio_data, no_limits_df, no_quota_df,
                   report, remove_failed>>

limits_chart ==
    /\ pc = "limits_chart"
    /\ chart_step(limits_ratio_data, limits_chart_path, "sheets")
    /\ UNCHANGED <<cluster, fate, namespace_quotas_df, pod_limits_df, all_namespaces_df,
                   quota_ratio_data, limits_ratio_data, no_limits_df, no_quota_df,
                   report, remove_failed>>

\* sorted(): ascending in the order of the names
WordOrder == <<"a", "b", "c">>
Rank(name) == CHOOSE i \in 1..Len(WordOrder) : WordOrder[i] = Head(name)
sorted(S) ==
    CHOOSE seq \in [1..Cardinality(S) -> S] :
        \A i, j \in 1..Cardinality(S) : i < j => Rank(seq[i]) < Rank(seq[j])

\* mutant: the namespaces with a quota are not taken out
namespaces_without_quotas_list_all == sorted(all_namespace_names_set)

namespaces_without_quotas_list ==
    IF namespace_quotas_df # <<>>
    THEN sorted(all_namespace_names_set \ Unique(namespace_quotas_df, KNamespace))
    ELSE sorted(all_namespace_names_set)

\* lines 293-309: the two derived sheets, then the return when all is empty
sheets ==
    /\ pc = "sheets"
    /\ no_limits_df' = IF pod_limits_df # <<>>
                       THEN Project(WithoutLimits(pod_limits_df))
                       ELSE <<>>
    /\ no_quota_df' = namespaces_without_quotas_list
    /\ pc' = IF /\ namespace_quotas_df = <<>>
                /\ pod_limits_df = <<>>
                /\ no_limits_df' = <<>>
                /\ no_quota_df' = <<>>
                /\ chart_files = <<>>
             THEN "done"
             ELSE "write"
    /\ UNCHANGED <<cluster, fate, namespace_quotas_df, pod_limits_df, all_namespaces_df,
                   quota_ratio_data, limits_ratio_data, chart_files, files, report,
                   remove_failed, raised>>

\* mutant: every chart sheet is put first
create_sheet_first(book, title, index) == <<title>> \o book

\* Workbook.create_sheet(title, index): list.insert
create_sheet(book, title, index) ==
    LET k == IF index < Len(book) THEN index ELSE Len(book)
    IN  SubSeq(book, 1, k) \o <<title>> \o SubSeq(book, k + 1, Len(book))

\* the sheets the with-block of lines 313-357 puts in the workbook
Workbook ==
    LET b1 == IF quota_chart_path \in files
              THEN create_sheet(<<>>, "Quota Ratio Chart", 0) ELSE <<>>
        b2 == IF limits_chart_path \in files
              THEN create_sheet(b1, "Limits Ratio Chart", 1) ELSE b1
        b3 == IF namespace_quotas_df # <<>> THEN Append(b2, "Namespace Quotas") ELSE b2
        b4 == IF pod_limits_df # <<>> THEN Append(b3, "Pod Limits and Requests") ELSE b3
        b5 == IF no_limits_df # <<>> THEN Append(b4, "Containers with No Limits") ELSE b4
    IN  IF no_quota_df # <<>> THEN Append(b5, "Namespaces with No Quota") ELSE b5

\* lines 311-363: the write succeeds, or raises and is caught and logged
write_report ==
    /\ pc = "write"
    /\ \E write_ok \in BOOLEAN :
          report' = IF write_ok
                    THEN [state |-> "written", sheets |-> Workbook]
                    ELSE [state |-> "failed", sheets |-> <<>>]
    /\ pc' = "cleanup"
    /\ UNCHANGED <<cluster, fate, namespace_quotas_df, pod_limits_df, all_namespaces_df,
                   quota_ratio_data, limits_ratio_data, chart_files, no_limits_df,
                   no_quota_df, files, remove_failed, raised>>

\* lines 365-371: os.remove of every chart file, an OSError caught and logged
cleanup ==
    /\ pc = "cleanup"
    /\ \E failing \in SUBSET Range(chart_files) :
          /\ files' = files \ (Range(chart_files) \ failing)
          /\ remove_failed' = failing
    /\ pc' = "done"
    /\ UNCHANGED <<cluster, fate, namespace_quotas_df, pod_limits_df, all_namespaces_df,
                   quota_ratio_data, limits_ratio_data, chart_files, no_limits_df,
                   no_quota_df, report, raised>>

\* ------------------------------------------------------------ the inputs
Names == Range(WordOrder)
HardMaps == {<<>>, << <<"cpu", "2">> >>, << <<"cpu", "4">>, <<"memory", "1Gi">> >>}
QuotaItems == [name : {"q1", "q2"}, namespace : Names, hard : HardMaps]
QuotaBehaviours ==
    {"ok", "no_final_separator", "no_namespace", "no_name", "no_equals"} \cup Failures

NoData == [with |-> 0, without |-> 0]
NoReport == [state |-> "none", sheets |-> <<>>]

Locals0 ==
    /\ namespace_quotas_df = <<>>
    /\ pod_limits_df = <<>>
    /\ all_namespaces_df = <<>>
    /\ quota_ratio_data = NoData
    /\ limits_ratio_data = NoData
    /\ chart_files = <<>>
    /\ no_limits_df = <<>>
    /\ no_quota_df = <<>>
    /\ files = {}
    /\ report = NoReport
    /\ remove_failed = {}
    /\ raised = ""

\* the quota collector alone, on every quota listing within the bounds
InitQuota ==
    /\ pc = "get_namespace_quotas"
    /\ \E qs \in SeqsUpTo(QuotaItems, MaxQuotas) :
          cluster = [quotas |-> qs, pods |-> <<>>, namespaces |-> <<>>]
    /\ \E b \in QuotaBehaviours :
          fate = [quota |-> b, pods |-> "not_found", ns |-> "not_found"]
    /\ Locals0

NextQuota == get_namespace_quotas

SpecQuota == InitQuota /\ [][NextQuota]_vars

Containers ==
    {[name |-> "c1", limits |-> <<"cpu:1", "memory:2Gi">>, requests |-> <<>>],
     [name |-> "c2", limits |-> <<>>, requests |-> <<"cpu:1">>]}
ContainerLists == SeqsUpTo(Containers, MaxContainers)
\* the pods of a listing: two pods in turn, each with any list of containers
PodListing(lists) ==
    [i \in 1..Len(lists) |->
        [name |-> IF i % 2 = 1 THEN "p1" ELSE "p2",
         namespace |-> IF i % 2 = 1 THEN "a" ELSE "b",
         containers |-> lists[i]]]
PodBehaviours ==
    {"ok", "no_final_separator", "no_namespace", "no_pod", "no_limits", "no_requests",
     "dup_limits", "dup_requests"} \cup Failures

\* the pod collector alone, on every pod listing within the bounds, in the
\* state main() is in when the quota call has failed
InitPods ==
    /\ pc = "get_pod_resource_limits"
    /\ \E lists \in SeqsUpTo(ContainerLists, MaxPods) :
          cluster = [quotas |-> <<>>, pods |-> PodListing(lists), namespaces |-> <<>>]
    /\ \E b \in PodBehaviours :
          fate = [quota |-> "not_found", pods |-> b, ns |-> "not_found"]
    /\ Locals0

NextPods == get_pod_resource_limits

SpecPods == InitPods /\ [][NextPods]_vars

\* main() whole: the listing of the spec's scenario and its sub-listings, every
\* order of the namespaces, each call working, garbled or failing
MainQuotaItems ==
    {[name |-> "q1", namespace |-> "a", hard |-> << <<"cpu", "2">> >>],
     [name |-> "q2", namespace |-> "b", hard |-> << <<"cpu", "4">> >>]}
MainPodItems ==
    {[name |-> "p1", namespace |-> "a",
      containers |-> << [name |-> "c1", limits |-> <<"cpu:1", "memory:2Gi">>,
                         requests |-> <<>>] >>],
     [name |-> "p2", namespace |-> "b",
      containers |-> << [name |-> "c2", limits |-> <<>>, requests |-> <<"cpu:1">>] >>]}
NamespaceLists ==
    {l \in SeqsUpTo(Names, Cardinality(Names)) :
        \A i, j \in 1..Len(l) : i # j => l[i] # l[j]}

\* without the tool no cluster is asked; a garbled listing has a line to lose
Plausible(items, behaviour) ==
    /\ behaviour = "not_found" => items = <<>>
    /\ behaviour \in {"no_namespace", "padded"} => items # <<>>

Init ==
    /\ pc = "get_namespace_quotas"
    /\ \E qs \in SeqsUpTo(MainQuotaItems, MaxQuotas),
          ps \in SeqsUpTo(MainPodItems, MaxPods),
          ns \in NamespaceLists :
          \E bq \in {"ok", "no_namespace"} \cup Failures,
             bp \in {"ok", "no_namespace"} \cup Failures,
             bn \in {"ok", "padded"} \cup Failures :
             /\ Plausible(qs, bq) /\ Plausible(ps, bp) /\ Plausible(ns, bn)
             /\ cluster = [quotas |-> qs, pods |-> ps, namespaces |-> ns]
             /\ fate = [quota |-> bq, pods |-> bp, ns |-> bn]
    /\ Locals0

Next ==
    \/ get_namespace_quotas
    \/ get_pod_resource_limits
    \/ get_all_namespaces
    \/ aggregate
    \/ quota_chart
    \/ limits_chart
    \/ sheets
    \/ write_report
    \/ cleanup

Spec == Init /\ [][Next]_vars

\* ================================================================ claims
Terminated == pc \in {"done", "crashed"}

\* C1: whatever text the pod parser (or the quota parser) is handed, a
\* malformed line or a partial record is skipped: the scan ends, a collection
\* is returned and no error is raised.
C1_MalformedLinesSkipped ==
    pc # "get_pod_resource_limits" => (pc = NextOfPods /\ raised = "")

\* C2: whatever the three CLI calls give, main() runs to its end: no exception
\* leaves it and the process exits 0.
C2_MainAlwaysCompletes == Terminated => (pc = "done" /\ raised = "")

PodErrors ==
    {"get_pod_resource_limits: KeyError 'Pod'",
     "get_pod_resource_limits: KeyError 'Namespace'",
     "get_pod_resource_limits: KeyError 'Containers'",
     "get_pod_resource_limits: ValueError unpack"}

\* C3: a CLI call that exits non-zero or is not found gives None without
\* raising, its collector returns an empty frame, and the run goes on with the
\* data of the other calls: an exception that ends the run is never due to the
\* failed call; it is raised on the output of a call that worked, or by the
\* write of a chart drawn from such output.
C3_FailedCallDegradesToEmpty ==
    /\ (fate.quota \in Failures /\ pc # "get_namespace_quotas")
           => namespace_quotas_df = <<>>
    /\ (fate.pods \in Failures
            /\ pc \notin {"get_namespace_quotas", "get_pod_resource_limits"})
           => pod_limits_df = <<>>
    /\ (fate.ns \in Failures
            /\ pc \notin {"get_namespace_quotas", "get_pod_resource_limits",
                          "get_all_namespaces"})
           => all_namespaces_df = <<>>
    /\ pc = "crashed" <=> raised # ""
    /\ raised # "" =>
          \/ raised \in PodErrors /\ fate.pods \notin Failures
          \/ raised = "main: KeyError 'Namespace'" /\ fate.quota \notin Failures
          \/ /\ raised = "create_pie_chart: ValueError wedge sizes"
             /\ fate.quota \notin Failures /\ fate.ns \notin Failures
          \/ /\ raised = "create_pie_chart: OSError savefig"
             /\ (fate.ns \notin Failures \/ fate.pods \notin Failures)
    /\ (pc = "done" /\ (namespace_quotas_df # <<>> \/ pod_limits_df # <<>>
                            \/ all_namespaces_df # <<>>))
           => report.state # "none"

\* the quota call fails, the pods and the namespaces are still reported
C3_Witness ==
    /\ pc = "done"
    /\ fate.quota \in Failures
    /\ pod_limits_df # <<>>
    /\ all_namespaces_df # <<>>
    /\ report.state = "written"
    /\ report.sheets = <<"Quota Ratio Chart", "Limits Ratio Chart",
                         "Pod Limits and Requests", "Containers with No Limits",
                         "Namespaces with No Quota">>

\* C4: when main() has returned or terminated, every chart file it created is
\* deleted, a deletion that failed (and was logged) being the only exception.
C4_ChartFilesDeletedOnEveryExit == Terminated => files \subseteq remove_failed

NoChartSignalled(data_counts, path) ==
    LET created == create_pie_chart(data_counts, path, TRUE)
    IN  created.ret = "None" /\ created.exc = "" /\ ~created.saved
ChartProduced(path) == path \in files /\ path \in Range(chart_files)
NoChart(path) == path \notin files /\ path \notin Range(chart_files)

\* C5: a chart step that returns has produced no file, signalled "no chart"
\* and left the chart out of the report exactly when the two counts sum to
\* zero; with a positive sum the file is produced, also when one slice is zero.
C5_ChartIffPositiveSum ==
    /\ pc \in {"limits_chart", "sheets", "write"} =>
          /\ Sum(quota_ratio_data) = 0 <=> NoChart(quota_chart_path)
          /\ Sum(quota_ratio_data) > 0 <=> ChartProduced(quota_chart_path)
          /\ Sum(quota_ratio_data) = 0
                <=> NoChartSignalled(quota_ratio_data, quota_chart_path)
    /\ pc \in {"sheets", "write"} =>
          /\ Sum(limits_ratio_data) = 0 <=> NoChart(limits_chart_path)
          /\ Sum(limits_ratio_data) > 0 <=> ChartProduced(limits_chart_path)
          /\ Sum(limits_ratio_data) = 0
                <=> NoChartSignalled(limits_ratio_data, limits_chart_path)
    /\ report.state = "written" =>
          /\ Sum(quota_ratio_data) = 0
                <=> "Quota Ratio Chart" \notin Range(report.sheets)
          /\ Sum(limits_ratio_data) = 0
                <=> "Limits Ratio Chart" \notin Range(report.sheets)

\* a chart with one slice of zero is produced, the chart of a zero sum is not
C5_Witness ==
    /\ pc = "write"
    /\ quota_ratio_data.with > 0 /\ quota_ratio_data.without = 0
    /\ ChartProduced(quota_chart_path)
    /\ Sum(limits_ratio_data) = 0
    /\ NoChart(limits_chart_path)

WellFormedQuotaListing == fate.quota \in {"ok", "no_final_separator"}

\* C6: the listing the template prints for N quotas, with or without its last
\* separator, parses to N records in the order of the listing, the i-th with
\* the name and the namespace of the i-th quota.
C6_OneRecordPerQuotaBlock ==
    (pc = NextOfQuotas /\ WellFormedQuotaListing) =>
        /\ Len(namespace_quotas_df) = Len(cluster.quotas)
        /\ \A i \in 1..Len(namespace_quotas_df) :
              /\ {KName, KNamespace} \subseteq DOMAIN namespace_quotas_df[i]
              /\ namespace_quotas_df[i][KName] = <<cluster.quotas[i].name>>
              /\ namespace_quotas_df[i][KNamespace] = <<cluster.quotas[i].namespace>>

\* two blocks, the second without its separator, give two records
C6_Witness ==
    /\ pc = NextOfQuotas
    /\ fate.quota = "no_final_separator"
    /\ Len(cluster.quotas) = 2
    /\ Len(namespace_quotas_df) = 2
    /\ namespace_quotas_df[1][KName] # namespace_quotas_df[2][KName]

RECURSIVE ExpectedContainerRows(_)
ExpectedContainerRows(pods) ==
    IF pods = <<>> THEN <<>>
    ELSE [i \in 1..Len(Head(pods).containers) |->
             <<Head(pods).name, Head(pods).namespace, Head(pods).containers[i].name>>]
         \o ExpectedContainerRows(Tail(pods))
WellFormedPodListing == fate.pods \in {"ok", "no_final_separator"}

\* C7: the listing the template prints for the pods parses to one row for each
\* container, in order, with the name and the namespace of its own pod; a pod
\* without containers gives no row.
C7_OneRowPerContainer ==
    (pc = NextOfPods /\ WellFormedPodListing) =>
        LET expected == ExpectedContainerRows(cluster.pods)
        IN  /\ Len(pod_limits_df) = Len(expected)
            /\ \A i \in 1..Len(pod_limits_df) :
                  /\ pod_limits_df[i].PodName = <<expected[i][1]>>
                  /\ pod_limits_df[i].Namespace = <<expected[i][2]>>
                  /\ pod_limits_df[i].ContainerName = <<expected[i][3]>>

\* a pod without containers before a pod with two: two rows, both the second's
C7_Witness ==
    /\ pc = NextOfPods
    /\ WellFormedPodListing
    /\ Len(cluster.pods) = 2
    /\ cluster.pods[1].containers = <<>>
    /\ cluster.pods[1].name # cluster.pods[2].name
    /\ Len(cluster.pods[2].containers) = 2
    /\ Len(pod_limits_df) = 2
    /\ \A i \in 1..2 : pod_limits_df[i].PodName = <<cluster.pods[2].name>>

QuotaNamespaces ==
    IF namespace_quotas_df = <<>> THEN {} ELSE Unique(namespace_quotas_df, KNamespace)
QuotasWithinCluster == QuotaNamespaces \subseteq all_namespace_names_set
SheetsPrepared == pc \in {"write", "cleanup", "done"}

\* C8: when every namespace of the quota records is a cluster namespace, no
\* namespace of the "no quota" sheet is in the namespace column of the quota
\* sheet, and the two together are the cluster's namespaces.
C8_NoQuotaSheetComplementsQuotaSheet ==
    (SheetsPrepared /\ QuotasWithinCluster) =>
        /\ Range(no_quota_df) \cap QuotaNamespaces = {}
        /\ Range(no_quota_df) \cup QuotaNamespaces = all_namespace_names_set

C8_Witness ==
    /\ pc = "done"
    /\ QuotasWithinCluster
    /\ Cardinality(QuotaNamespaces) = 1
    /\ Len(namespace_quotas_df) = 2
    /\ Len(no_quota_df) = 2
    /\ Len(all_namespaces_df) > 3

Aggregated == pc \in {"quota_chart", "limits_chart", "sheets", "write", "cleanup", "done"}

\* C9: under the same condition the covered count is the number of distinct
\* namespaces of the quota records, the missing count is not negative and is
\* the length of the "no quota" sheet, and the two counts add up to the number
\* of distinct cluster namespaces.
C9_CountsAddUp ==
    /\ (Aggregated /\ QuotasWithinCluster) =>
          /\ quota_ratio_data.with = Cardinality(QuotaNamespaces)
          /\ quota_ratio_data.without >= 0
          /\ quota_ratio_data.with + quota_ratio_data.without
                = Cardinality(all_namespace_names_set)
    /\ (SheetsPrepared /\ QuotasWithinCluster) =>
          quota_ratio_data.without = Len(no_quota_df)

\* the scenario of the spec: quotas in a and b, namespaces a, b, c
C9_Witness ==
    /\ pc = "done"
    /\ QuotaNamespaces = {<<"a">>, <<"b">>}
    /\ all_namespace_names_set = {<<"a">>, <<"b">>, <<"c">>}
    /\ quota_ratio_data = [with |-> 2, without |-> 1]
    /\ no_quota_df = << <<"c">> >>

NothingCollected ==
    /\ namespace_quotas_df = <<>>
    /\ pod_limits_df = <<>>
    /\ all_namespaces_df = <<>>
    /\ chart_files = <<>>
SheetIf(present, title) == IF present THEN <<title>> ELSE <<>>
ExpectedSheets ==
    SheetIf(quota_chart_path \in Range(chart_files), "Quota Ratio Chart")
    \o SheetIf(limits_chart_path \in Range(chart_files), "Limits Ratio Chart")
    \o SheetIf(namespace_quotas_df # <<>>, "Namespace Quotas")
    \o SheetIf(pod_limits_df # <<>>, "Pod Limits and Requests")
    \o SheetIf(\E i \in 1..Len(pod_limits_df) : pod_limits_df[i].Limits = <<>>,
               "Containers with No Limits")
    \o SheetIf(all_namespace_names_set \ QuotaNamespaces # {},
               "Namespaces with No Quota")

\* C10: the report step writes nothing exactly when nothing was collected and
\* no chart was produced; a report that is written holds, in this order, the
\* sheets among the six whose source is present, and so at least one.
C10_ReportSheets ==
    /\ pc = "write" => ~NothingCollected
    /\ pc \in {"cleanup", "done"} => (report.state = "none" <=> NothingCollected)
    /\ report.state = "written" =>
          /\ report.sheets = ExpectedSheets
          /\ Len(report.sheets) >= 1

C10_Witness ==
    /\ pc = "done"
    /\ report.state = "written"
    /\ Len(report.sheets) = 6

====
